---- MODULE Spec2Model ----
(***************************************************************************)
(* x402 Task Board (src/src/index.ts): the task lifecycle handlers of the  *)
(* Worker's fetch() and the D1 tables they write.  Every `await` on the    *)
(* database is one atomic step (a D1 statement or a D1 batch); between two *)
(* awaits of one request the statements of other requests may run.         *)
(***************************************************************************)
EXTENDS Integers, Sequences, FiniteSets, TLC

\* Bounds of the model.  Clients racing on the rows of one task, and one
\* client working through more tasks.
RaceClients == 2
RaceTasks == 1
RaceBids == 2
SeqTasks == 2
SeqBids == 3
\* A third configuration: one client bidding on one task, with the optional
\* poster_name / poster_stx / bidder_name / bidder_stx fields of the bodies.
UpsertBids == 3

Addr == {"a1", "a2"}
NULL == "null"
\* body.amount_sats values that pass the validation of POST /api/tasks/:id/bid
\* (!body.amount_sats rejects only an absent or zero amount).
Amounts == {-1, 2}
PaymentTxs == {NULL, "tx"}
\* body.poster_name / body.bidder_name: absent (undefined, modelled as NULL),
\* the empty string, or a name.
Names == {NULL, "", "n1"}
\* body.poster_stx / body.bidder_stx: absent or an address.
StxAddrs == {NULL, "s1"}
\* Each configuration bounds the clients, the rows and the optional fields of
\* the bodies: amount_sats and payment_tx vary where one client works through
\* the tasks, the names and secondary addresses in the third configuration.
Configs ==
  { [clients |-> RaceClients, tasks |-> RaceTasks, bids |-> RaceBids,
     amounts |-> {2}, txs |-> {NULL}, names |-> {NULL}, stxs |-> {NULL}],
    [clients |-> 1, tasks |-> SeqTasks, bids |-> SeqBids,
     amounts |-> Amounts, txs |-> PaymentTxs, names |-> {NULL}, stxs |-> {NULL}],
    [clients |-> 1, tasks |-> 1, bids |-> UpsertBids,
     amounts |-> {2}, txs |-> {NULL}, names |-> Names, stxs |-> StxAddrs] }
\* body.poster values of POST /api/tasks; every other request draws its
\* address from Addr.
Posters == {"a1"}
\* body.bounty_sats values that pass the validation of POST /api/tasks
\* (present and not < 1).
Bounties == {3}

VARIABLES
  agents,    \* table agents: btc_address -> row
  tasks,     \* table tasks: the rows in id order (id = position)
  bids,      \* table bids: the rows in id order (id = position)
  activity,  \* table activity: per task_id, its rows in id order
  reqs,      \* per client, its request in flight (body, locals, position)
  resp,      \* the response returned by the last step, if it returned one
  cfg        \* the configuration explored (constant over a behaviour)

vars == <<agents, tasks, bids, activity, reqs, resp, cfg>>
db == <<agents, tasks, bids, activity>>

Slots == 1..cfg.clients
TaskIds == 1..cfg.tasks
BidIds == 1..cfg.bids

----------------------------------------------------------------------------
\* Rows of the D1 schema.

\* The column defaults of table agents.  first_seen (DEFAULT datetime('now'))
\* is written by the INSERT that creates the row: 0 stands for "not yet".
NewAgent ==
  [stx_address |-> NULL, display_name |-> NULL,
   reputation |-> 0, tasks_posted |-> 0, tasks_completed |-> 0,
   total_earned_sats |-> 0, total_spent_sats |-> 0, first_seen |-> 0]

NewTask(poster, bounty) ==
  [poster |-> poster, bounty_sats |-> bounty, status |-> "open",
   worker |-> NULL, payment_tx |-> NULL]

NewBid(id, bidder, amount) ==
  [task_id |-> id, bidder |-> bidder, amount_sats |-> amount, status |-> "pending"]

\* INSERT INTO activity (task_id, actor, action, details) VALUES (?, ?, ?, ?)
LogActivity(act, id, actor, action) ==
  [act EXCEPT ![id] = Append(@, [actor |-> actor, action |-> action])]

\* `displayName || null`: undefined and the empty string are bound as NULL.
OrNull(v) == IF v = "" THEN NULL ELSE v

\* SQL COALESCE(excluded.x, agents.x)
Coalesce(new, old) == IF new # NULL THEN new ELSE old

\* datetime('now') of the INSERT that creates an agents row, as the position of
\* the row in the order of creation (a later row is never stamped earlier).
Now(ag) == Cardinality(DOMAIN ag) + 1

\* (mutant) an upsert whose conflict branch writes the bound values as they are.
ensureAgent_Overwrite(ag, addr, displayName, stxAddress) ==
  IF addr \in DOMAIN ag
  THEN [ag EXCEPT ![addr].display_name = OrNull(displayName),
                  ![addr].stx_address = OrNull(stxAddress)]
  ELSE [a \in (DOMAIN ag) \cup {addr} |->
          IF a = addr
          THEN [NewAgent EXCEPT !.display_name = OrNull(displayName),
                                !.stx_address = OrNull(stxAddress),
                                !.first_seen = Now(ag)]
          ELSE ag[a]]

\* (mutant) an upsert that replaces the row (INSERT OR REPLACE): an existing
\* row gets the column defaults back.
ensureAgent_Replace(ag, addr, displayName, stxAddress) ==
  [a \in (DOMAIN ag) \cup {addr} |->
     IF a = addr
     THEN [NewAgent EXCEPT !.display_name = OrNull(displayName),
                           !.stx_address = OrNull(stxAddress),
                           !.first_seen = IF addr \in DOMAIN ag
                                          THEN ag[addr].first_seen ELSE Now(ag)]
     ELSE ag[a]]

\* INSERT INTO agents (btc_address, display_name, stx_address) VALUES (?, ?, ?)
\* ON CONFLICT(btc_address) DO UPDATE SET
\*   display_name = COALESCE(excluded.display_name, agents.display_name),
\*   stx_address = COALESCE(excluded.stx_address, agents.stx_address)
ensureAgent(ag, addr, displayName, stxAddress) ==
  IF addr \in DOMAIN ag
  THEN [ag EXCEPT ![addr].display_name = Coalesce(OrNull(displayName), @),
                  ![addr].stx_address = Coalesce(OrNull(stxAddress), @)]
  ELSE [a \in (DOMAIN ag) \cup {addr} |->
          IF a = addr
          THEN [NewAgent EXCEPT !.display_name = OrNull(displayName),
                                !.stx_address = OrNull(stxAddress),
                                !.first_seen = Now(ag)]
          ELSE ag[a]]

\* UPDATE agents SET tasks_posted = tasks_posted + 1,
\*   total_spent_sats = total_spent_sats + ? WHERE btc_address = ?
AddPosted(ag, addr, bounty) ==
  IF addr \in DOMAIN ag
  THEN [ag EXCEPT ![addr].tasks_posted = @ + 1, ![addr].total_spent_sats = @ + bounty]
  ELSE ag

\* UPDATE agents SET tasks_completed = tasks_completed + 1,
\*   total_earned_sats = total_earned_sats + ?, reputation = reputation + 1 WHERE btc_address = ?
CreditWorker(ag, addr, bounty) ==
  IF addr \in DOMAIN ag
  THEN [ag EXCEPT ![addr].tasks_completed = @ + 1,
                  ![addr].total_earned_sats = @ + bounty,
                  ![addr].reputation = @ + 1]
  ELSE ag

\* UPDATE agents SET reputation = reputation + 1 WHERE btc_address = ?
CreditPoster(ag, addr) ==
  IF addr \in DOMAIN ag THEN [ag EXCEPT ![addr].reputation = @ + 1] ELSE ag

\* (mutant) a cancellation that also costs the poster a reputation point.
RefundPoster_Penalty(ag, addr, bounty) ==
  IF addr \in DOMAIN ag
  THEN [ag EXCEPT ![addr].total_spent_sats = @ - bounty, ![addr].reputation = @ - 1]
  ELSE ag

\* (mutant) a cancellation that also takes the task out of tasks_posted.
RefundPoster_AlsoPosted(ag, addr, bounty) ==
  IF addr \in DOMAIN ag
  THEN [ag EXCEPT ![addr].total_spent_sats = @ - bounty, ![addr].tasks_posted = @ - 1]
  ELSE ag

\* UPDATE agents SET total_spent_sats = total_spent_sats - ? WHERE btc_address = ?
RefundPoster(ag, addr, bounty) ==
  IF addr \in DOMAIN ag THEN [ag EXCEPT ![addr].total_spent_sats = @ - bounty] ELSE ag

----------------------------------------------------------------------------
\* One request in flight per client: its body, its locals and its position.

NoReq ==
  [kind |-> "none", pc |-> "idle", id |-> 0, actor |-> NULL, bid_id |-> 0,
   amount |-> 0, approved |-> FALSE, payment_tx |-> NULL,
   name |-> NULL, stx |-> NULL,
   bid_bidder |-> NULL, bid_amount |-> 0,
   task_bounty |-> 0, task_worker |-> NULL, task_poster |-> NULL,
   last_row_id |-> 0]

Free(r) == reqs[r].pc = "idle"

\* return json(data, status): the HTTP status and the fields of the body that
\* the handlers return (error, task_id or bid_id, worker, status).
NoResp == [code |-> 0, error |-> NULL, row_id |-> 0, worker |-> NULL, status |-> NULL]
Json(code) == [NoResp EXCEPT !.code = code]
\* return json({ error: msg }, code)
JsonError(msg, code) == [NoResp EXCEPT !.code = code, !.error = msg]

Init ==
  /\ cfg \in Configs
  /\ agents = [a \in {} |-> NewAgent]
  /\ tasks = <<>>
  /\ bids = <<>>
  /\ activity = [id \in TaskIds |-> <<>>]
  /\ reqs = [r \in Slots |-> NoReq]
  /\ resp = NoResp

----------------------------------------------------------------------------
\* POST /api/tasks

CreatesInFlight ==
  Cardinality({r \in Slots : reqs[r].kind = "create" /\ reqs[r].pc = "insert_task"})

\* The validation and
\* `await ensureAgent(env.DB, body.poster, body.poster_name, body.poster_stx)`.
CreateTask(r, poster, bounty, poster_name, poster_stx) ==
  /\ Free(r)
  /\ Len(tasks) + CreatesInFlight < cfg.tasks
  /\ agents' = ensureAgent(agents, poster, poster_name, poster_stx)
  /\ reqs' = [reqs EXCEPT ![r] =
       [NoReq EXCEPT !.kind = "create", !.pc = "insert_task",
                     !.actor = poster, !.amount = bounty]]
  /\ resp' = NoResp
  /\ UNCHANGED <<tasks, bids, activity, cfg>>

\* INSERT INTO tasks (poster, ..., bounty_sats, ...)
CreateInsertTask(r) ==
  /\ reqs[r].kind = "create" /\ reqs[r].pc = "insert_task"
  /\ tasks' = Append(tasks, NewTask(reqs[r].actor, reqs[r].amount))
  /\ reqs' = [reqs EXCEPT ![r].pc = "update_agent", ![r].last_row_id = Len(tasks) + 1]
  /\ resp' = NoResp
  /\ UNCHANGED <<agents, bids, activity, cfg>>

\* UPDATE agents SET tasks_posted = ..., total_spent_sats = ...
CreateUpdateAgent(r) ==
  /\ reqs[r].kind = "create" /\ reqs[r].pc = "update_agent"
  /\ agents' = AddPosted(agents, reqs[r].actor, reqs[r].amount)
  /\ reqs' = [reqs EXCEPT ![r].pc = "insert_activity"]
  /\ resp' = NoResp
  /\ UNCHANGED <<tasks, bids, activity, cfg>>

\* INSERT INTO activity ... 'created'; return 201 with task_id
CreateInsertActivity(r) ==
  /\ reqs[r].kind = "create" /\ reqs[r].pc = "insert_activity"
  /\ activity' = LogActivity(activity, reqs[r].last_row_id, reqs[r].actor, "created")
  /\ reqs' = [reqs EXCEPT ![r] = NoReq]
  /\ resp' = [Json(201) EXCEPT !.row_id = reqs[r].last_row_id]
  /\ UNCHANGED <<agents, tasks, bids, cfg>>

----------------------------------------------------------------------------
\* POST /api/tasks/:id/bid

BidsInFlight ==
  Cardinality({r \in Slots : reqs[r].kind = "bid" /\ reqs[r].pc \in {"ensure", "insert_bid"}})

\* (mutant) the bid checks without the one on the bidder.
BidCheck_NoSelfCheck(id, bidder) ==
  IF id > Len(tasks) THEN JsonError("Task not found", 404)
  ELSE IF tasks[id].status # "open" THEN JsonError("Task is not open for bids", 400)
  ELSE NoResp

\* The checks on the row that SELECT * FROM tasks WHERE id = ? returned: the
\* error response, NoResp when the request goes on.
BidCheck(id, bidder) ==
  IF id > Len(tasks) THEN JsonError("Task not found", 404)
  ELSE IF tasks[id].status # "open" THEN JsonError("Task is not open for bids", 400)
  ELSE IF tasks[id].poster = bidder THEN JsonError("Cannot bid on your own task", 400)
  ELSE NoResp

PlaceBid(r, id, bidder, amount, bidder_name, bidder_stx) ==
  /\ Free(r)
  /\ LET err == BidCheck(id, bidder)
     IN IF err # NoResp
        THEN /\ reqs' = reqs
             /\ resp' = err
        ELSE /\ Len(bids) + BidsInFlight < cfg.bids
             /\ reqs' = [reqs EXCEPT ![r] =
                  [NoReq EXCEPT !.kind = "bid", !.pc = "ensure", !.id = id,
                                !.actor = bidder, !.amount = amount,
                                !.name = bidder_name, !.stx = bidder_stx]]
             /\ resp' = NoResp
  /\ UNCHANGED <<agents, tasks, bids, activity, cfg>>

\* await ensureAgent(env.DB, body.bidder, body.bidder_name, body.bidder_stx)
BidEnsureAgent(r) ==
  /\ reqs[r].kind = "bid" /\ reqs[r].pc = "ensure"
  /\ agents' = ensureAgent(agents, reqs[r].actor, reqs[r].name, reqs[r].stx)
  /\ reqs' = [reqs EXCEPT ![r].pc = "insert_bid"]
  /\ resp' = NoResp
  /\ UNCHANGED <<tasks, bids, activity, cfg>>

\* INSERT INTO bids (task_id, bidder, amount_sats, ...)
BidInsertBid(r) ==
  /\ reqs[r].kind = "bid" /\ reqs[r].pc = "insert_bid"
  /\ bids' = Append(bids, NewBid(reqs[r].id, reqs[r].actor, reqs[r].amount))
  /\ reqs' = [reqs EXCEPT ![r].pc = "insert_activity", ![r].last_row_id = Len(bids) + 1]
  /\ resp' = NoResp
  /\ UNCHANGED <<agents, tasks, activity, cfg>>

\* INSERT INTO activity ... 'bid'; return 201 with bid_id
BidInsertActivity(r) ==
  /\ reqs[r].kind = "bid" /\ reqs[r].pc = "insert_activity"
  /\ activity' = LogActivity(activity, reqs[r].id, reqs[r].actor, "bid")
  /\ reqs' = [reqs EXCEPT ![r] = NoReq]
  /\ resp' = [Json(201) EXCEPT !.row_id = reqs[r].last_row_id]
  /\ UNCHANGED <<agents, tasks, bids, cfg>>

----------------------------------------------------------------------------
\* POST /api/tasks/:id/accept

\* SELECT * FROM bids WHERE id = ? AND task_id = ?
BidFound(bid_id, id) == bid_id <= Len(bids) /\ bids[bid_id].task_id = id

AcceptBid(r, id, poster, bid_id) ==
  /\ Free(r)
  /\ IF ~BidFound(bid_id, id)
     THEN /\ reqs' = reqs
          /\ resp' = JsonError("Bid not found", 404)
     ELSE /\ reqs' = [reqs EXCEPT ![r] =
               [NoReq EXCEPT !.kind = "accept", !.pc = "update", !.id = id,
                             !.actor = poster, !.bid_id = bid_id,
                             !.bid_bidder = bids[bid_id].bidder,
                             !.bid_amount = bids[bid_id].amount_sats]]
          /\ resp' = NoResp
  /\ UNCHANGED <<agents, tasks, bids, activity, cfg>>

\* (mutant) the conditional update without its status condition.
AcceptMatches_AnyStatus(id, poster) ==
  /\ id <= Len(tasks)
  /\ tasks[id].poster = poster

\* The WHERE clause of the conditional update: id = ? AND status = 'open' AND poster = ?
AcceptMatches(id, poster) ==
  /\ id <= Len(tasks)
  /\ tasks[id].status = "open"
  /\ tasks[id].poster = poster

\* (mutant) the assignment without the worker column.
AssignTask_NoWorker(t, bidder, amount) ==
  [t EXCEPT !.status = "assigned", !.bounty_sats = amount]

\* (mutant) the assignment with the poster written as the worker.
AssignTask_ToPoster(t, bidder, amount) ==
  [t EXCEPT !.status = "assigned", !.worker = t.poster, !.bounty_sats = amount]

\* UPDATE tasks SET status = 'assigned', worker = ?, bounty_sats = ? WHERE ...
AssignTask(t, bidder, amount) ==
  [t EXCEPT !.status = "assigned", !.worker = bidder, !.bounty_sats = amount]

\* (mutant) the result of the conditional update is not looked at.
AcceptConflict_Ignored(changes) == changes < 0

\* if (!update.meta.changes) return 409
AcceptConflict(changes) == changes = 0

AcceptUpdate(r) ==
  /\ reqs[r].kind = "accept" /\ reqs[r].pc = "update"
  /\ LET id == reqs[r].id
         changes == IF AcceptMatches(id, reqs[r].actor) THEN 1 ELSE 0
     IN /\ tasks' = IF changes = 1
                    THEN [tasks EXCEPT ![id] =
                            AssignTask(tasks[id], reqs[r].bid_bidder, reqs[r].bid_amount)]
                    ELSE tasks
        /\ IF AcceptConflict(changes)
           THEN /\ reqs' = [reqs EXCEPT ![r] = NoReq]
                /\ resp' = JsonError("Task already accepted or not open, or not your task", 409)
           ELSE /\ reqs' = [reqs EXCEPT ![r].pc = "batch"]
                /\ resp' = NoResp
  /\ UNCHANGED <<agents, bids, activity, cfg>>

\* (mutant) the accepting statement keyed by task_id instead of id.
AcceptCascade_ByTask(bs, id, bid_id) ==
  [b \in DOMAIN bs |->
     IF b = bid_id \/ bs[b].task_id = id THEN [bs[b] EXCEPT !.status = "accepted"]
     ELSE bs[b]]

\* (mutant) the batch without its rejecting statement.
AcceptCascade_KeepsPending(bs, id, bid_id) ==
  [b \in DOMAIN bs |->
     IF b = bid_id THEN [bs[b] EXCEPT !.status = "accepted"] ELSE bs[b]]

\* (mutant) a cascade that withdraws the other bids of the task.
AcceptCascade_Withdraws(bs, id, bid_id) ==
  [b \in DOMAIN bs |->
     IF b = bid_id THEN [bs[b] EXCEPT !.status = "accepted"]
     ELSE IF bs[b].task_id = id THEN [bs[b] EXCEPT !.status = "withdrawn"]
          ELSE bs[b]]

\* The first two statements of the batch:
\*   UPDATE bids SET status = 'accepted' WHERE id = ?
\*   UPDATE bids SET status = 'rejected' WHERE task_id = ? AND id != ? AND status = 'pending'
AcceptCascade(bs, id, bid_id) ==
  [b \in DOMAIN bs |->
     IF b = bid_id THEN [bs[b] EXCEPT !.status = "accepted"]
     ELSE IF bs[b].task_id = id /\ bs[b].status = "pending"
          THEN [bs[b] EXCEPT !.status = "rejected"]
          ELSE bs[b]]

\* await env.DB.batch([...]); return 200 with worker
AcceptBatch(r) ==
  /\ reqs[r].kind = "accept" /\ reqs[r].pc = "batch"
  /\ bids' = AcceptCascade(bids, reqs[r].id, reqs[r].bid_id)
  /\ activity' = LogActivity(activity, reqs[r].id, reqs[r].actor, "accepted_bid")
  /\ reqs' = [reqs EXCEPT ![r] = NoReq]
  /\ resp' = [Json(200) EXCEPT !.worker = reqs[r].bid_bidder]
  /\ UNCHANGED <<agents, tasks, cfg>>

----------------------------------------------------------------------------
\* POST /api/tasks/:id/submit

\* (mutant) the submit checks with the status looked at before the worker.
SubmitCheck_StatusFirst(id, worker) ==
  IF id > Len(tasks) THEN JsonError("Task not found", 404)
  ELSE IF tasks[id].status # "assigned"
       THEN JsonError("Task is not in assigned state", 400)
  ELSE IF tasks[id].worker # worker
       THEN JsonError("Only the assigned worker can submit", 403)
  ELSE NoResp

SubmitCheck(id, worker) ==
  IF id > Len(tasks) THEN JsonError("Task not found", 404)
  ELSE IF tasks[id].worker # worker
       THEN JsonError("Only the assigned worker can submit", 403)
  ELSE IF tasks[id].status # "assigned"
       THEN JsonError("Task is not in assigned state", 400)
  ELSE NoResp

SubmitWork(r, id, worker) ==
  /\ Free(r)
  /\ LET err == SubmitCheck(id, worker)
     IN IF err # NoResp
        THEN /\ reqs' = reqs
             /\ resp' = err
        ELSE /\ reqs' = [reqs EXCEPT ![r] =
                  [NoReq EXCEPT !.kind = "submit", !.pc = "batch", !.id = id,
                                !.actor = worker]]
             /\ resp' = NoResp
  /\ UNCHANGED <<agents, tasks, bids, activity, cfg>>

\* (mutant) a submit that also writes the bounty.
SubmitTask_Rebills(t) == [t EXCEPT !.status = "submitted", !.bounty_sats = @ + 1]

\* UPDATE tasks SET status = 'submitted', proof_url = ... WHERE id = ?
SubmitTask(t) == [t EXCEPT !.status = "submitted"]

SubmitBatch(r) ==
  /\ reqs[r].kind = "submit" /\ reqs[r].pc = "batch"
  /\ tasks' = [tasks EXCEPT ![reqs[r].id] = SubmitTask(@)]
  /\ activity' = LogActivity(activity, reqs[r].id, reqs[r].actor, "submitted")
  /\ reqs' = [reqs EXCEPT ![r] = NoReq]
  /\ resp' = Json(200)
  /\ UNCHANGED <<agents, bids, cfg>>

----------------------------------------------------------------------------
\* POST /api/tasks/:id/verify

\* (mutant) the verify checks without the one on the status.
VerifyCheck_NoStatus(id, poster) ==
  IF id > Len(tasks) THEN JsonError("Task not found", 404)
  ELSE IF tasks[id].poster # poster THEN JsonError("Only the poster can verify", 403)
  ELSE NoResp

VerifyCheck(id, poster) ==
  IF id > Len(tasks) THEN JsonError("Task not found", 404)
  ELSE IF tasks[id].poster # poster THEN JsonError("Only the poster can verify", 403)
  ELSE IF tasks[id].status # "submitted"
       THEN JsonError("Task work not submitted yet", 400)
  ELSE NoResp

VerifyWork(r, id, poster, approved, payment_tx) ==
  /\ Free(r)
  /\ LET err == VerifyCheck(id, poster)
     IN IF err # NoResp
        THEN /\ reqs' = reqs
             /\ resp' = err
        ELSE /\ reqs' = [reqs EXCEPT ![r] =
                  [NoReq EXCEPT !.kind = "verify", !.pc = "batch", !.id = id,
                                !.actor = poster, !.approved = approved,
                                !.payment_tx = payment_tx,
                                !.task_bounty = tasks[id].bounty_sats,
                                !.task_worker = tasks[id].worker,
                                !.task_poster = tasks[id].poster]]
             /\ resp' = NoResp
  /\ UNCHANGED <<agents, tasks, bids, activity, cfg>>

\* const newStatus = body.payment_tx ? 'paid' : 'verified'
NewStatus(payment_tx) == IF payment_tx # NULL THEN "paid" ELSE "verified"

\* The status field of the response: body.approved ? 'verified' : 'disputed'
ResponseStatus(approved) == IF approved THEN "verified" ELSE "disputed"

\* UPDATE tasks SET status = ?, payment_tx = ? WHERE id = ?
ApproveTask(t, payment_tx) ==
  [t EXCEPT !.status = NewStatus(payment_tx), !.payment_tx = payment_tx]

\* UPDATE tasks SET status = 'disputed' WHERE id = ?
DisputeTask(t) == [t EXCEPT !.status = "disputed"]

\* (mutant) an approval that credits the worker only.
ApproveLedger_WorkerOnly(ag, worker, poster, bounty) ==
  CreditWorker(ag, worker, bounty)

\* The two UPDATE agents statements of the approving batch, in order.
ApproveLedger(ag, worker, poster, bounty) ==
  CreditPoster(CreditWorker(ag, worker, bounty), poster)

VerifyBatch(r) ==
  /\ reqs[r].kind = "verify" /\ reqs[r].pc = "batch"
  /\ LET id == reqs[r].id
     IN IF reqs[r].approved
        THEN /\ tasks' = [tasks EXCEPT ![id] = ApproveTask(@, reqs[r].payment_tx)]
             /\ agents' = ApproveLedger(agents, reqs[r].task_worker,
                                        reqs[r].task_poster, reqs[r].task_bounty)
             /\ activity' = LogActivity(activity, id, reqs[r].actor, "verified")
        ELSE /\ tasks' = [tasks EXCEPT ![id] = DisputeTask(@)]
             /\ agents' = agents
             /\ activity' = LogActivity(activity, id, reqs[r].actor, "disputed")
  /\ reqs' = [reqs EXCEPT ![r] = NoReq]
  /\ resp' = [Json(200) EXCEPT !.status = ResponseStatus(reqs[r].approved)]
  /\ UNCHANGED <<bids, cfg>>

----------------------------------------------------------------------------
\* PATCH /api/tasks/:id/cancel

CancelCheck(id, poster) ==
  IF id > Len(tasks) THEN JsonError("Task not found", 404)
  ELSE IF tasks[id].poster # poster THEN JsonError("Only the poster can cancel", 403)
  ELSE IF tasks[id].status # "open" THEN JsonError("Can only cancel open tasks", 400)
  ELSE NoResp

CancelTask(r, id, poster) ==
  /\ Free(r)
  /\ LET err == CancelCheck(id, poster)
     IN IF err # NoResp
        THEN /\ reqs' = reqs
             /\ resp' = err
        ELSE /\ reqs' = [reqs EXCEPT ![r] =
                  [NoReq EXCEPT !.kind = "cancel", !.pc = "batch", !.id = id,
                                !.actor = poster,
                                !.task_bounty = tasks[id].bounty_sats]]
             /\ resp' = NoResp
  /\ UNCHANGED <<agents, tasks, bids, activity, cfg>>

\* UPDATE tasks SET status = 'cancelled' WHERE id = ?
CancelRow(t) == [t EXCEPT !.status = "cancelled"]

CancelBatch(r) ==
  /\ reqs[r].kind = "cancel" /\ reqs[r].pc = "batch"
  /\ tasks' = [tasks EXCEPT ![reqs[r].id] = CancelRow(@)]
  /\ agents' = RefundPoster(agents, reqs[r].actor, reqs[r].task_bounty)
  /\ activity' = LogActivity(activity, reqs[r].id, reqs[r].actor, "cancelled")
  /\ reqs' = [reqs EXCEPT ![r] = NoReq]
  /\ resp' = Json(200)
  /\ UNCHANGED <<bids, cfg>>

----------------------------------------------------------------------------
Next ==
  \/ \E r \in Slots, poster \in Posters, bounty \in Bounties,
        poster_name \in cfg.names, poster_stx \in cfg.stxs :
       CreateTask(r, poster, bounty, poster_name, poster_stx)
  \/ \E r \in Slots : CreateInsertTask(r)
  \/ \E r \in Slots : CreateUpdateAgent(r)
  \/ \E r \in Slots : CreateInsertActivity(r)
  \/ \E r \in Slots, id \in TaskIds, bidder \in Addr, amount \in cfg.amounts,
        bidder_name \in cfg.names, bidder_stx \in cfg.stxs :
       PlaceBid(r, id, bidder, amount, bidder_name, bidder_stx)
  \/ \E r \in Slots : BidEnsureAgent(r)
  \/ \E r \in Slots : BidInsertBid(r)
  \/ \E r \in Slots : BidInsertActivity(r)
  \/ \E r \in Slots, id \in TaskIds, poster \in Addr, bid_id \in BidIds :
       AcceptBid(r, id, poster, bid_id)
  \/ \E r \in Slots : AcceptUpdate(r)
  \/ \E r \in Slots : AcceptBatch(r)
  \/ \E r \in Slots, id \in TaskIds, worker \in Addr : SubmitWork(r, id, worker)
  \/ \E r \in Slots : SubmitBatch(r)
  \/ \E r \in Slots, id \in TaskIds, poster \in Addr, approved \in BOOLEAN,
        payment_tx \in cfg.txs : VerifyWork(r, id, poster, approved, payment_tx)
  \/ \E r \in Slots : VerifyBatch(r)
  \/ \E r \in Slots, id \in TaskIds, poster \in Addr : CancelTask(r, id, poster)
  \/ \E r \in Slots : CancelBatch(r)

Spec == Init /\ [][Next]_vars

----------------------------------------------------------------------------
\* Vocabulary of the properties.

TaskRows == DOMAIN tasks
BidRows == DOMAIN bids
\* The activity rows of task id that carry the given action label.
Logged(id, action) == {i \in DOMAIN activity[id] : activity[id][i].action = action}
\* The accept requests on task id whose conditional update took effect and
\* whose batch has not run yet.
PastUpdate(id) ==
  {r \in Slots : reqs[r].kind = "accept" /\ reqs[r].pc = "batch" /\ reqs[r].id = id}
AcceptedBids(id) == {b \in BidRows : bids[b].task_id = id /\ bids[b].status = "accepted"}
Stepped(r) == reqs'[r] # reqs[r]

----------------------------------------------------------------------------
\* C1: of the AcceptBid requests on one task at most one succeeds.  A request
\* of the poster whose conditional update finds the task open wins (it goes on
\* to its batch with worker and bounty_sats set from its bid); any other
\* request gets 409 and ends.  The winner returns 200 with the bidder of its
\* bid, and the task then carries that bid's bidder and amount.
C1_AtMostOneWinner ==
  \A id \in TaskRows :
    Cardinality(PastUpdate(id)) + Cardinality(Logged(id, "accepted_bid")) <= 1

C1_Steps ==
  \A r \in Slots :
    LET id == reqs[r].id
        bid == bids[reqs[r].bid_id]
    IN /\ AcceptUpdate(r) =>
            IF tasks[id].status = "open" /\ tasks[id].poster = reqs[r].actor
            THEN /\ reqs'[r].pc = "batch"
                 /\ resp'.code = 0
                 /\ tasks'[id].worker = bid.bidder
                 /\ tasks'[id].bounty_sats = bid.amount_sats
            ELSE /\ reqs'[r] = NoReq
                 /\ resp'.code = 409
       /\ AcceptBatch(r) =>
            /\ reqs'[r] = NoReq
            /\ resp'.code = 200
            /\ resp'.worker = bid.bidder
            /\ tasks'[id].worker = bid.bidder
            /\ tasks'[id].bounty_sats = bid.amount_sats

C1_AcceptExclusive == []C1_AtMostOneWinner /\ [][C1_Steps]_vars

\* Two accept requests of the poster on the same task naming different bids:
\* one has won the conditional update, the other is about to run its own.
C1_Witness ==
  \E r1, r2 \in Slots :
    /\ reqs[r1].kind = "accept" /\ reqs[r1].pc = "batch"
    /\ reqs[r2].kind = "accept" /\ reqs[r2].pc = "update"
    /\ reqs[r1].id = reqs[r2].id
    /\ reqs[r1].bid_id # reqs[r2].bid_id
    /\ reqs[r2].actor = tasks[reqs[r2].id].poster

\* C2: in every reachable state each task has at most one accepted bid.
C2_OneAcceptedBid ==
  \A id \in TaskRows : Cardinality(AcceptedBids(id)) <= 1

\* A task with two bids, one accepted and the other rejected.
C2_Witness ==
  \E b1, b2 \in BidRows :
    /\ bids[b1].task_id = bids[b2].task_id
    /\ bids[b1].status = "accepted"
    /\ bids[b2].status = "rejected"

\* C3: an AcceptBid and a CancelTask on the same task never both succeed (each
\* success logs its activity row in the step that returns 200), and no task is
\* cancelled with a worker set.
C3_AcceptCancelExclusive ==
  \A id \in TaskRows :
    /\ ~(Logged(id, "accepted_bid") # {} /\ Logged(id, "cancelled") # {})
    /\ ~(tasks[id].status = "cancelled" /\ tasks[id].worker # NULL)

\* C4 as stated: for every task, worker is null iff status is open.
C4_WorkerNullIffOpen ==
  \A id \in TaskRows : (tasks[id].worker = NULL) <=> (tasks[id].status = "open")

\* C4 amended: every open task has no worker, and a task without a worker is
\* open or cancelled (every assigned, submitted, verified, paid or disputed
\* task has a worker).
C4_WorkerNullOnlyOpenOrCancelled ==
  \A id \in TaskRows :
    /\ tasks[id].status = "open" => tasks[id].worker = NULL
    /\ tasks[id].worker = NULL => tasks[id].status \in {"open", "cancelled"}

\* A cancelled task without a worker beside a task that has one.
C4_Witness ==
  /\ \E id \in TaskRows : tasks[id].status = "cancelled" /\ tasks[id].worker = NULL
  /\ \E id \in TaskRows : tasks[id].status = "submitted" /\ tasks[id].worker # NULL

RECURSIVE EarnedUpTo(_, _)
\* SUM(bounty_sats) over the tasks 1..n whose worker is a and whose status is
\* verified or paid.
EarnedUpTo(a, n) ==
  IF n = 0 THEN 0
  ELSE EarnedUpTo(a, n - 1)
       + (IF tasks[n].worker = a /\ tasks[n].status \in {"verified", "paid"}
          THEN tasks[n].bounty_sats ELSE 0)

\* C5: each agent's total_earned_sats equals the sum of bounty_sats over the
\* tasks it is the worker of whose status is verified or paid.
C5_EarnedMatchesTasks ==
  \A a \in DOMAIN agents : agents[a].total_earned_sats = EarnedUpTo(a, Len(tasks))

\* C6: no step decreases the reputation of any agent (and no agent row is
\* ever removed).
C6_ReputationMonotone ==
  [][\A a \in DOMAIN agents :
       /\ a \in DOMAIN agents'
       /\ agents'[a].reputation >= agents[a].reputation]_vars

\* An approved task has credited both its worker and its poster, and the
\* poster has since been refunded by a cancel.
C6_Witness ==
  /\ \A a \in Addr : a \in DOMAIN agents /\ agents[a].reputation >= 1
  /\ \E id \in TaskRows : Logged(id, "cancelled") # {}

Terminal == {"paid", "verified", "disputed", "cancelled"}

\* C7: once a task's status is paid, verified, disputed or cancelled, no step
\* changes it.
C7_TerminalStatusesStay ==
  [][\A id \in TaskRows :
       tasks[id].status \in Terminal => tasks'[id].status = tasks[id].status]_vars

LegalTransitions ==
  { <<"open", "assigned">>, <<"assigned", "submitted">>, <<"submitted", "verified">>,
    <<"submitted", "paid">>, <<"submitted", "disputed">>, <<"open", "cancelled">> }

\* C8: every change of a task's status is one of the legal transitions.
C8_OnlyLegalTransitions ==
  [][\A id \in TaskRows :
       tasks'[id].status # tasks[id].status =>
         <<tasks[id].status, tasks'[id].status>> \in LegalTransitions]_vars

\* C9: a successful AcceptBid(id, poster, bid B).  Its conditional update
\* leaves the task assigned with worker = B.bidder and bounty_sats =
\* B.amount_sats and touches no bid; its batch leaves B accepted, every other
\* bid of the task that was pending rejected, every other bid (of this task or
\* of another) as it was, and the task row as it was, still carrying B's
\* bidder and amount; with no other client the task is then still assigned.
C9_Steps ==
  \A r \in Slots :
    LET id == reqs[r].id
        B == reqs[r].bid_id
    IN /\ (AcceptUpdate(r) /\ reqs'[r].pc = "batch") =>
            /\ tasks'[id].status = "assigned"
            /\ tasks'[id].worker = bids[B].bidder
            /\ tasks'[id].bounty_sats = bids[B].amount_sats
            /\ \A t \in TaskRows \ {id} : tasks'[t] = tasks[t]
            /\ bids' = bids
       /\ AcceptBatch(r) =>
            /\ resp'.code = 200
            /\ DOMAIN bids' = DOMAIN bids
            /\ bids'[B] = [bids[B] EXCEPT !.status = "accepted"]
            /\ \A b \in BidRows \ {B} :
                 IF bids[b].task_id = id /\ bids[b].status = "pending"
                 THEN bids'[b] = [bids[b] EXCEPT !.status = "rejected"]
                 ELSE bids'[b] = bids[b]
            /\ tasks' = tasks
            /\ tasks'[id].worker = bids[B].bidder
            /\ tasks'[id].bounty_sats = bids[B].amount_sats
            /\ cfg.clients = 1 => tasks'[id].status = "assigned"

C9_AcceptEffect == [][C9_Steps]_vars

\* An accept has just returned 200: its bid is accepted, a sibling that was
\* pending is rejected, and a bid of another task is still pending.
C9_Witness ==
  /\ resp.code = 200 /\ resp.worker # NULL
  /\ \E b1, b2, b3 \in BidRows :
       /\ bids[b1].status = "accepted" /\ bids[b1].bidder = resp.worker
       /\ bids[b2].task_id = bids[b1].task_id /\ bids[b2].status = "rejected"
       /\ bids[b3].task_id # bids[b1].task_id /\ bids[b3].status = "pending"
       /\ tasks[bids[b1].task_id].status = "assigned"

\* C10: an AcceptBid whose conditional update matches no row (the task is not
\* open, or not the caller's) returns 409 in that step and is over: the step
\* changes no table, and neither did the request's earlier step, the SELECT
\* of its bid.
C10_Steps ==
  /\ \A r \in Slots :
       (AcceptUpdate(r)
          /\ ~(tasks[reqs[r].id].status = "open"
               /\ tasks[reqs[r].id].poster = reqs[r].actor)) =>
         /\ resp'.code = 409
         /\ reqs'[r] = NoReq
         /\ UNCHANGED db
  /\ \A r \in Slots :
       (Free(r) /\ reqs'[r].kind = "accept") => UNCHANGED db

C10_ConflictNoEffect == [][C10_Steps]_vars

\* A request has just been told 409 while the winner of the task has not run
\* its batch yet: every bid is still pending and nothing is logged.
C10_Witness ==
  /\ resp.code = 409
  /\ \E id \in TaskRows :
       /\ PastUpdate(id) # {}
       /\ Logged(id, "accepted_bid") = {}
       /\ \A b \in BidRows : bids[b].status = "pending"

\* C11: the batch of an approving VerifyWork sets the task's status to paid
\* when a payment_tx is supplied and to verified otherwise, and changes the
\* agents table by exactly: worker tasks_completed + 1, worker
\* total_earned_sats + task.bounty_sats, worker reputation + 1, poster
\* reputation + 1.  The batch of a rejecting VerifyWork sets the status to
\* disputed and leaves the agents table as it was.
C11_Steps ==
  \A r \in Slots :
    VerifyBatch(r) =>
      LET id == reqs[r].id
          w == tasks[id].worker
          p == tasks[id].poster
      IN /\ resp'.code = 200
         /\ \A t \in TaskRows \ {id} : tasks'[t] = tasks[t]
         /\ IF reqs[r].approved
            THEN /\ tasks'[id].status =
                      (IF reqs[r].payment_tx = NULL THEN "verified" ELSE "paid")
                 /\ w # p /\ {w, p} \subseteq DOMAIN agents
                 /\ agents' =
                      [agents EXCEPT
                         ![w] = [@ EXCEPT
                                   !.tasks_completed = @ + 1,
                                   !.total_earned_sats = @ + tasks[id].bounty_sats,
                                   !.reputation = @ + 1],
                         ![p] = [@ EXCEPT !.reputation = @ + 1]]
            ELSE /\ tasks'[id].status = "disputed"
                 /\ agents' = agents

C11_VerifyEffect == [][C11_Steps]_vars

\* One task approved with a payment_tx (paid, its worker credited with its
\* bounty_sats) and another rejected (disputed).
C11_Witness ==
  \E id1, id2 \in TaskRows :
    /\ tasks[id1].status = "paid" /\ tasks[id1].payment_tx # NULL
    /\ Cardinality(Logged(id1, "verified")) = 1
    /\ agents[tasks[id1].worker].total_earned_sats = tasks[id1].bounty_sats
    /\ agents[tasks[id1].worker].tasks_completed = 1
    /\ agents[tasks[id1].poster].reputation = 1
    /\ tasks[id2].status = "disputed"

\* C12: a SubmitWork by the task's worker on a task that is not assigned, a
\* VerifyWork by the task's poster on a task that is not submitted (a second
\* VerifyWork after a successful one among them) and a CancelTask by the
\* task's poster on a task that is not open get the state-conflict error of
\* their handler from the checks on the row their SELECT returned; the step
\* that returns such an error changes no table and leaves no request in
\* flight, and no request gets past its SELECT unless the row had the source
\* status of the transition.
C12_Refused ==
  \A id \in TaskRows :
    /\ (tasks[id].worker \in Addr /\ tasks[id].status # "assigned") =>
         SubmitCheck(id, tasks[id].worker) =
           JsonError("Task is not in assigned state", 400)
    /\ tasks[id].status # "submitted" =>
         VerifyCheck(id, tasks[id].poster) =
           JsonError("Task work not submitted yet", 400)
    /\ tasks[id].status # "open" =>
         CancelCheck(id, tasks[id].poster) =
           JsonError("Can only cancel open tasks", 400)

C12_Errors ==
  { JsonError("Task is not in assigned state", 400),
    JsonError("Task work not submitted yet", 400),
    JsonError("Can only cancel open tasks", 400) }

C12_Steps ==
  /\ resp' \in C12_Errors => (reqs' = reqs /\ UNCHANGED db)
  /\ \A r \in Slots :
       Free(r) =>
         /\ reqs'[r].kind = "submit" =>
              (resp' = NoResp /\ tasks[reqs'[r].id].status = "assigned")
         /\ reqs'[r].kind = "verify" =>
              (resp' = NoResp /\ tasks[reqs'[r].id].status = "submitted")
         /\ reqs'[r].kind = "cancel" =>
              (resp' = NoResp /\ tasks[reqs'[r].id].status = "open")

C12_WrongStatusRejected == []C12_Refused /\ [][C12_Steps]_vars

\* A second VerifyWork on a task that an earlier one approved has just been
\* refused.
C12_Witness ==
  /\ resp = JsonError("Task work not submitted yet", 400)
  /\ \E id \in TaskRows :
       /\ tasks[id].status \in {"verified", "paid"}
       /\ Logged(id, "verified") # {}
  /\ \A r \in Slots : Free(r)

\* C13: the batch of a CancelTask that runs on a task that is open sets the
\* task's status to cancelled and changes nothing else of the row, decreases
\* the total_spent_sats of the poster by the task's bounty_sats and changes no
\* other column of the agents table, appends one activity row labelled
\* cancelled to the task, and returns 200.
C13_Steps ==
  \A r \in Slots :
    (CancelBatch(r) /\ tasks[reqs[r].id].status = "open") =>
      LET id == reqs[r].id
          p == tasks[id].poster
      IN /\ resp'.code = 200
         /\ tasks' = [tasks EXCEPT ![id].status = "cancelled"]
         /\ p \in DOMAIN agents
         /\ agents' = [agents EXCEPT
                         ![p].total_spent_sats = @ - tasks[id].bounty_sats]
         /\ activity' = [activity EXCEPT
                           ![id] = Append(@, [actor |-> p, action |-> "cancelled"])]
         /\ bids' = bids

C13_CancelEffect == [][C13_Steps]_vars

\* A task has been cancelled once, with no bid accepted: its poster's
\* total_spent_sats is back to what it was before the task was posted.
C13_Witness ==
  \E id \in TaskRows :
    /\ tasks[id].status = "cancelled"
    /\ Cardinality(Logged(id, "cancelled")) = 1
    /\ Logged(id, "accepted_bid") = {}
    /\ Len(tasks) = 1
    /\ agents[tasks[id].poster].total_spent_sats = 0
    /\ agents[tasks[id].poster].tasks_posted = 1

\* C14: a SubmitWork by an address other than the task's worker, and a
\* VerifyWork or a CancelTask by an address other than the task's poster, get
\* the 403 error of their handler from the checks on the row their SELECT
\* returned, whatever the task's status; the step that returns such an error
\* changes no table and leaves no request in flight, and no request gets past
\* its SELECT under another address than the worker's (submit) or the
\* poster's (verify, cancel).
C14_Refused ==
  \A id \in TaskRows, a \in Addr :
    /\ a # tasks[id].worker =>
         SubmitCheck(id, a) = JsonError("Only the assigned worker can submit", 403)
    /\ a # tasks[id].poster =>
         /\ VerifyCheck(id, a) = JsonError("Only the poster can verify", 403)
         /\ CancelCheck(id, a) = JsonError("Only the poster can cancel", 403)

C14_Errors ==
  { JsonError("Only the assigned worker can submit", 403),
    JsonError("Only the poster can verify", 403),
    JsonError("Only the poster can cancel", 403) }

C14_Steps ==
  /\ resp' \in C14_Errors => (reqs' = reqs /\ UNCHANGED db)
  /\ \A r \in Slots :
       Free(r) =>
         /\ reqs'[r].kind = "submit" =>
              reqs'[r].actor = tasks[reqs'[r].id].worker
         /\ reqs'[r].kind \in {"verify", "cancel"} =>
              reqs'[r].actor = tasks[reqs'[r].id].poster

C14_WrongActorForbidden == []C14_Refused /\ [][C14_Steps]_vars

\* The poster has just been refused the submit of a task assigned to another
\* address.
C14_Witness ==
  /\ resp = JsonError("Only the assigned worker can submit", 403)
  /\ \E id \in TaskRows :
       tasks[id].status = "assigned" /\ tasks[id].worker # NULL
  /\ \A r \in Slots : Free(r)

\* C15: an AcceptBid on an open task under an address that is not the task's
\* poster is answered with the forbidden error (403) and changes no table.
C15_MismatchForbidden ==
  [][\A r \in Slots :
       (AcceptUpdate(r) /\ tasks[reqs[r].id].status = "open"
          /\ tasks[reqs[r].id].poster # reqs[r].actor) =>
         (resp'.code = 403 /\ UNCHANGED db)]_vars

\* C16: a PlaceBid on a task that is not open, or by the task's poster, gets
\* the 400 error of the handler from the checks on the row its SELECT
\* returned; the step that returns it changes no table (no bid row, no
\* activity row, no agents row) and leaves no request in flight, and no bid
\* request gets past its SELECT otherwise.  A PlaceBid that got past it
\* inserts one bid row, pending and of that task, bidder and amount, then one
\* activity row labelled bid, and returns 201 with the id of its bid; the
\* bids of a task are as many as its bid activity rows plus the requests
\* between those two inserts.
C16_Refused ==
  \A id \in TaskRows, a \in Addr :
    /\ tasks[id].status # "open" =>
         BidCheck(id, a) = JsonError("Task is not open for bids", 400)
    /\ (tasks[id].status = "open" /\ a = tasks[id].poster) =>
         BidCheck(id, a) = JsonError("Cannot bid on your own task", 400)

C16_Counted ==
  \A id \in TaskIds :
    Cardinality({b \in BidRows : bids[b].task_id = id}) =
      Cardinality(Logged(id, "bid"))
      + Cardinality({r \in Slots : reqs[r].kind = "bid" /\ reqs[r].id = id
                                     /\ reqs[r].pc = "insert_activity"})

C16_Errors ==
  { JsonError("Task is not open for bids", 400),
    JsonError("Cannot bid on your own task", 400) }

C16_Steps ==
  /\ resp' \in C16_Errors => (reqs' = reqs /\ UNCHANGED db)
  /\ \A r \in Slots :
       LET id == reqs[r].id
       IN /\ (Free(r) /\ reqs'[r].kind = "bid") =>
               /\ tasks[reqs'[r].id].status = "open"
               /\ tasks[reqs'[r].id].poster # reqs'[r].actor
               /\ reqs'[r].pc = "ensure"
               /\ UNCHANGED db
          /\ BidEnsureAgent(r) =>
               /\ reqs'[r].pc = "insert_bid"
               /\ UNCHANGED <<tasks, bids, activity>>
          /\ BidInsertBid(r) =>
               /\ bids' = Append(bids, [task_id |-> id, bidder |-> reqs[r].actor,
                                        amount_sats |-> reqs[r].amount,
                                        status |-> "pending"])
               /\ reqs'[r].pc = "insert_activity"
               /\ UNCHANGED <<agents, tasks, activity>>
          /\ BidInsertActivity(r) =>
               /\ activity' = [activity EXCEPT
                                 ![id] = Append(@, [actor |-> reqs[r].actor,
                                                    action |-> "bid"])]
               /\ resp'.code = 201
               /\ resp'.row_id \in BidRows
               /\ bids[resp'.row_id].task_id = id
               /\ bids[resp'.row_id].bidder = reqs[r].actor
               /\ reqs'[r] = NoReq
               /\ UNCHANGED <<agents, tasks, bids>>

C16_PlaceBid == []C16_Refused /\ []C16_Counted /\ [][C16_Steps]_vars

\* A second PlaceBid on the same open task has just returned 201 with the id
\* of its bid, which is pending.
C16_Witness ==
  /\ resp.code = 201 /\ resp.row_id = 2 /\ Len(bids) = 2
  /\ bids[2].status = "pending" /\ bids[2].task_id = bids[1].task_id
  /\ tasks[bids[2].task_id].status = "open"
  /\ Cardinality(Logged(bids[2].task_id, "bid")) = 2

\* C17: in every reachable state every task's bounty_sats is at least 1.
C17_BountyPositive ==
  \A id \in TaskRows : tasks[id].bounty_sats >= 1

\* A state is observable by another request when another client exists: any
\* statement of that client may be the next step.
Observable == cfg.clients > 1

Accepted == {"assigned", "submitted", "verified", "paid", "disputed"}

\* C18: in every state observable by another request, a task whose status is
\* assigned, submitted, verified, paid or disputed has exactly one accepted
\* bid, whose bidder is the task's worker and whose amount_sats is the task's
\* bounty_sats.
C18_AcceptAtomic ==
  Observable =>
    \A id \in TaskRows :
      tasks[id].status \in Accepted =>
        /\ Cardinality(AcceptedBids(id)) = 1
        /\ \A b \in AcceptedBids(id) :
             /\ bids[b].bidder = tasks[id].worker
             /\ bids[b].amount_sats = tasks[id].bounty_sats

\* C19: in every state observable by another request, each agent's
\* tasks_posted is the number of tasks it is the poster of, and every task
\* has an activity row labelled created.
C19_CreateAtomic ==
  Observable =>
    /\ \A a \in DOMAIN agents :
         agents[a].tasks_posted =
           Cardinality({id \in TaskRows : tasks[id].poster = a})
    /\ \A id \in TaskRows : Logged(id, "created") # {}

\* What an upsert of addr with the given optional values may do to the agents
\* table: nothing to any other row; to an existing row of addr nothing but
\* display_name and stx_address, and neither of those when the value is
\* omitted (absent or empty); a new row has zeroed counters.
C20_Upsert(addr, displayName, stxAddress) ==
  /\ DOMAIN agents' = DOMAIN agents \cup {addr}
  /\ \A a \in DOMAIN agents \ {addr} : agents'[a] = agents[a]
  /\ IF addr \in DOMAIN agents
     THEN /\ agents'[addr] =
               [agents[addr] EXCEPT !.display_name = agents'[addr].display_name,
                                    !.stx_address = agents'[addr].stx_address]
          /\ displayName \in {NULL, ""} =>
               agents'[addr].display_name = agents[addr].display_name
          /\ stxAddress \in {NULL, ""} =>
               agents'[addr].stx_address = agents[addr].stx_address
          /\ (displayName \in {NULL, ""} /\ stxAddress \in {NULL, ""}) =>
               agents' = agents
     ELSE /\ agents'[addr].reputation = 0
          /\ agents'[addr].tasks_posted = 0
          /\ agents'[addr].tasks_completed = 0
          /\ agents'[addr].total_earned_sats = 0
          /\ agents'[addr].total_spent_sats = 0

\* C20: an upsert never overwrites a known display name or secondary address
\* with an omitted one (so an upsert that brings no value leaves the table as
\* it was), and never changes a counter or first_seen; no step removes or
\* re-stamps an agents row.
C20_Steps ==
  /\ \A a \in DOMAIN agents :
       a \in DOMAIN agents' /\ agents'[a].first_seen = agents[a].first_seen
  /\ \A r \in Slots :
       /\ BidEnsureAgent(r) =>
            C20_Upsert(reqs[r].actor, reqs[r].name, reqs[r].stx)
       /\ (Free(r) /\ reqs'[r].kind = "create") =>
            \A poster \in Posters, bounty \in Bounties,
               poster_name \in cfg.names, poster_stx \in cfg.stxs :
              CreateTask(r, poster, bounty, poster_name, poster_stx) =>
                C20_Upsert(poster, poster_name, poster_stx)

C20_UpsertPreserves == [][C20_Steps]_vars

\* A bidder known with a display name and a secondary address has just been
\* upserted again, by a bid that brought neither, and still has both.
C20_Witness ==
  \E r \in Slots :
    /\ reqs[r].kind = "bid" /\ reqs[r].pc = "insert_bid"
    /\ reqs[r].name = NULL /\ reqs[r].stx = NULL
    /\ Len(bids) >= 1 /\ bids[1].bidder = reqs[r].actor
    /\ agents[reqs[r].actor].display_name = "n1"
    /\ agents[reqs[r].actor].stx_address = "s1"

\* C21, the log is append-only: every step leaves the activity rows of every
\* task in place and adds at most one row to the table.
C21_Steps ==
  \A id \in TaskIds :
    /\ Len(activity'[id]) >= Len(activity[id])
    /\ SubSeq(activity'[id], 1, Len(activity[id])) = activity[id]

\* C21, one row per transition: the log of a task holds at most one row each
\* labelled created, accepted_bid and submitted, and at most one row among
\* those labelled verified, disputed and cancelled.
C21_OneRowEach ==
  \A id \in TaskIds :
    /\ Cardinality(Logged(id, "created")) <= 1
    /\ Cardinality(Logged(id, "accepted_bid")) <= 1
    /\ Cardinality(Logged(id, "submitted")) <= 1
    /\ Cardinality(Logged(id, "verified") \cup Logged(id, "disputed")
                   \cup Logged(id, "cancelled")) <= 1

\* C21: activity rows are never updated or deleted, and under any
\* interleaving each task's log holds at most one row per transition.
C21_ActivityLog == []C21_OneRowEach /\ [][C21_Steps]_vars

\* The five counters of an agents row.
Counters(row) ==
  <<row.reputation, row.tasks_posted, row.tasks_completed,
    row.total_earned_sats, row.total_spent_sats>>

\* C22: every step of a PlaceBid, an AcceptBid, a SubmitWork and a rejecting
\* VerifyWork leaves the five counters of every agent as they were (a row
\* that PlaceBid creates starts with all five at 0); a step that changes a
\* counter of an agent is the UPDATE agents of a CreateTask, the batch of an
\* approving VerifyWork or the batch of a CancelTask.
C22_Steps ==
  /\ \A a \in DOMAIN agents' \ DOMAIN agents :
       Counters(agents'[a]) = <<0, 0, 0, 0, 0>>
  /\ \A r \in Slots :
       (Stepped(r) /\ (reqs[r].kind \in {"bid", "accept", "submit"}
                       \/ reqs'[r].kind \in {"bid", "accept", "submit"}
                       \/ (reqs[r].kind = "verify" /\ ~reqs[r].approved)
                       \/ (reqs'[r].kind = "verify" /\ ~reqs'[r].approved))) =>
         \A a \in DOMAIN agents : Counters(agents'[a]) = Counters(agents[a])
  /\ (\E a \in DOMAIN agents : Counters(agents'[a]) # Counters(agents[a])) =>
       \E r \in Slots :
         \/ CreateUpdateAgent(r)
         \/ VerifyBatch(r) /\ reqs[r].approved
         \/ CancelBatch(r)

C22_CountersFrame == [][C22_Steps]_vars

\* A worker credited for one task has bid on another, been accepted and
\* submitted, and the poster has rejected that work: its counters are those
\* of the one credit.
C22_Witness ==
  \E id1, id2 \in TaskRows :
    /\ tasks[id1].status \in {"verified", "paid"}
    /\ tasks[id2].status = "disputed"
    /\ tasks[id2].worker = tasks[id1].worker
    /\ Counters(agents[tasks[id1].worker]) =
         <<1, 0, 1, tasks[id1].bounty_sats, 0>>

\* C23: a step that changes a task's bounty_sats is the conditional update of
\* an AcceptBid: it takes the task from open to assigned and leaves it with
\* the amount_sats of the bid the request named, a bid of that task (the one
\* its batch will mark accepted).  No step takes a task back to open, so this
\* happens at most once per task.  No step removes a task row, moves it to
\* another id or changes its poster.
C23_Steps ==
  /\ Len(tasks') >= Len(tasks)
  /\ \A id \in TaskRows :
       /\ tasks'[id].poster = tasks[id].poster
       /\ tasks[id].status # "open" => tasks'[id].status # "open"
       /\ tasks'[id].bounty_sats # tasks[id].bounty_sats =>
            /\ tasks[id].status = "open" /\ tasks'[id].status = "assigned"
            /\ \E r \in Slots :
                 /\ AcceptUpdate(r) /\ reqs[r].id = id
                 /\ bids[reqs[r].bid_id].task_id = id
                 /\ tasks'[id].bounty_sats = bids[reqs[r].bid_id].amount_sats
       /\ (tasks[id].status = "open" /\ tasks'[id].status = "assigned") =>
            \E r \in Slots :
              /\ AcceptUpdate(r) /\ reqs[r].id = id
              /\ tasks'[id].bounty_sats = bids[reqs[r].bid_id].amount_sats

C23_BountyOnce == [][C23_Steps]_vars

\* A task posted with one bounty carries another, its accepted bid's amount,
\* and has moved on to submitted with it.
C23_Witness ==
  \E id \in TaskRows, b \in BidRows :
    /\ tasks[id].status = "submitted"
    /\ tasks[id].bounty_sats \notin Bounties
    /\ bids[b].task_id = id /\ bids[b].status = "accepted"
    /\ bids[b].amount_sats = tasks[id].bounty_sats

\* C24, in every state: a bid is pending, accepted or rejected, never
\* withdrawn.
C24_NoWithdrawn ==
  \A b \in BidRows : bids[b].status \in {"pending", "accepted", "rejected"}

\* C24, on every step: no bid row is removed, and nothing of a bid but its
\* status changes; a step that changes the status of a bid is the batch of an
\* AcceptBid on the bid's task, and takes the bid from pending to accepted or
\* from pending to rejected (an accepted or rejected bid stays as it is).
C24_Steps ==
  /\ Len(bids') >= Len(bids)
  /\ \A b \in BidRows :
       /\ bids'[b] = [bids[b] EXCEPT !.status = bids'[b].status]
       /\ bids'[b].status # bids[b].status =>
            /\ bids[b].status = "pending"
            /\ bids'[b].status \in {"accepted", "rejected"}
            /\ \E r \in Slots : AcceptBatch(r) /\ reqs[r].id = bids[b].task_id

\* C24: a bid's status is changed only by the accept cascade, and only from
\* pending to accepted or to rejected.
C24_BidStatus == []C24_NoWithdrawn /\ [][C24_Steps]_vars

\* The cascade has run on a task with two bids and a bid of another task is
\* still pending.
C24_Witness ==
  \E b1, b2, b3 \in BidRows :
    /\ bids[b1].status = "accepted" /\ bids[b2].status = "rejected"
    /\ bids[b2].task_id = bids[b1].task_id
    /\ bids[b3].task_id # bids[b1].task_id /\ bids[b3].status = "pending"
    /\ tasks[bids[b1].task_id].status = "submitted"

\* C25: once an AcceptBid on a task has completed (its batch has logged
\* accepted_bid), no bid of that task is pending.
C25_NoPendingAfterAccept ==
  \A id \in TaskRows :
    Logged(id, "accepted_bid") # {} =>
      \A b \in BidRows : bids[b].task_id = id => bids[b].status # "pending"

\* C26: in every reachable state every agent's total_spent_sats is at least 0.
C26_SpentNonNegative ==
  \A a \in DOMAIN agents : agents[a].total_spent_sats >= 0

\* C27: the status in the response of a successful VerifyWork is the status
\* its batch stored on the task.
C27_ResponseIsStored ==
  [][\A r \in Slots :
       VerifyBatch(r) => resp'.status = tasks'[reqs[r].id].status]_vars

\* C28: in every reachable state no bid is its task's poster's, every task
\* that has a worker has a worker other than its poster, and so has every
\* approving VerifyWork between its SELECT and its batch: its two reputation
\* increments go to two agents.
C28_WorkerNotPoster ==
  /\ \A b \in BidRows : bids[b].bidder # tasks[bids[b].task_id].poster
  /\ \A id \in TaskRows :
       tasks[id].worker # NULL => tasks[id].worker # tasks[id].poster
  /\ \A r \in Slots :
       (reqs[r].kind = "verify" /\ reqs[r].approved) =>
         reqs[r].task_worker # reqs[r].task_poster

\* An approving VerifyWork has run on the only task: its worker and its
\* poster are two agents with one reputation point each.
C28_Witness ==
  \E id \in TaskRows :
    /\ tasks[id].status = "verified"
    /\ tasks[id].worker # NULL
    /\ agents[tasks[id].worker].reputation = 1
    /\ agents[tasks[id].poster].reputation = 1
    /\ Len(tasks) = 1

====
